---- MODULE Spec2Model ----
(***************************************************************************)
(* k-means clustering and threshold graph of the country records           *)
(* (DS 210 Final Project/Project/src/main.rs; the Geographical DALY        *)
(* variant holds the same kmeans code).                                    *)
(*                                                                         *)
(* Numbers.  The f64 features are modelled as exact rationals: a Country   *)
(* value carries the three numerators and one shared denominator `den`     *)
(* (den = 1 for every loaded record, den > 1 only for a centroid that is a *)
(* mean), always in lowest terms, so that equal values are equal records.  *)
(* A distance sqrt(q) is carried as the rational q = num/den under the     *)
(* root; sqrt is strictly monotone, so `<` on distances is `<` on q.       *)
(* Rounding, NaN and infinities are outside the model.                     *)
(***************************************************************************)
EXTENDS Integers, Sequences, FiniteSets, TLC

\* ---- bounds of the model ----
MaxN == 3
MaxK == 3
MaxIter == 3
MaxThreshold == 4

\* feature vectors <<communicable, non_communicable, co2>> the records draw from
FeatureVectors == { <<1, 0, 0>>, <<0, 1, 0>>, <<1, 1, 1>>, <<3, 3, 2>> }

CountryNames == <<"CountryA", "CountryB", "CountryC", "CountryD", "CountryE">>

\* Option<usize>: None, Some(i)
None == <<>>

Some(i) == <<i>>

unwrap(o) == o[1]

VARIABLES
    given,          \* the Vec<Country> handed to kmeans / build_graph by the caller
    k,              \* kmeans argument
    max_iterations, \* kmeans argument
    countries,      \* kmeans' `mut countries`
    centroids,      \* kmeans' `centroids`
    new_centroids,  \* kmeans' `new_centroids` of the running iteration
    iter,           \* completed (adopted) iterations of the for loop
    wcss,           \* history: within-cluster squared distance after each assign pass
    used,           \* history: the centroids each assign pass ran against
    threshold,      \* build_graph argument
    graph,          \* build_graph's returned adjacency_list
    pc

vars == <<given, k, max_iterations, countries, centroids, new_centroids,
          iter, wcss, used, threshold, graph, pc>>

\* ---- rational helpers ----
Abs(x) == IF x < 0 THEN -x ELSE x

RECURSIVE GCD(_, _)
GCD(a, b) == IF b = 0 THEN Abs(a) ELSE GCD(b, a % b)

\* struct Country (a loaded record has den = 1)
Country(name, f) ==
    [name |-> name, communicable |-> f[1], non_communicable |-> f[2],
     co2 |-> f[3], den |-> 1, cluster |-> None]

\* lowest terms of a value with numerators a, b, c over d
Reduced(c) ==
    LET g == GCD(GCD(c.communicable, c.non_communicable), GCD(c.co2, c.den))
    IN  [c EXCEPT !.communicable = c.communicable \div g,
                  !.non_communicable = c.non_communicable \div g,
                  !.co2 = c.co2 \div g,
                  !.den = c.den \div g]

\* f64 `<` on two distances sqrt(a.num/a.den), sqrt(b.num/b.den)
Less(a, b) == a.num * b.den < b.num * a.den

\* f64::MAX: above every distance of the model
F64_MAX == [num |-> 1, den |-> 0]

Sq(x) == x * x

euclidean_distance(country, centroid) ==
    [num |-> Sq(country.communicable * centroid.den - centroid.communicable * country.den)
           + Sq(country.non_communicable * centroid.den - centroid.non_communicable * country.den)
           + Sq(country.co2 * centroid.den - centroid.co2 * country.den),
     den |-> Sq(country.den * centroid.den)]

\* ---- initialize_centroids ----
\* slice.choose_multiple(rng, k): min(k, len) distinct elements, in any order
Min(a, b) == IF a < b THEN a ELSE b

ChooseMultiple(n, amount) ==
    { s \in [1..Min(amount, n) -> 1..n] :
        \A i, j \in 1..Min(amount, n) : i # j => s[i] # s[j] }

initialize_centroids(cs, kk, chosen) ==
    [j \in 1..Len(chosen) |-> cs[chosen[j]]]

\* ---- assign_clusters ----
\* variant: `<=` in place of `<` at line 46
RECURSIVE NearestFromLeq(_, _, _, _, _)
NearestFromLeq(country, cents, i, min_distance, assigned_cluster) ==
    IF i >= Len(cents) THEN assigned_cluster
    ELSE LET distance == [num |-> Sq(country.communicable * cents[i + 1].den - cents[i + 1].communicable * country.den)
                                + Sq(country.non_communicable * cents[i + 1].den - cents[i + 1].non_communicable * country.den)
                                + Sq(country.co2 * cents[i + 1].den - cents[i + 1].co2 * country.den),
                          den |-> Sq(country.den * cents[i + 1].den)]
         IN  IF ~(min_distance.num * distance.den < distance.num * min_distance.den)
             THEN NearestFromLeq(country, cents, i + 1, distance, i)
             ELSE NearestFromLeq(country, cents, i + 1, min_distance, assigned_cluster)

\* the inner loop over centroids.iter().enumerate(), from 0-based index i on
RECURSIVE NearestFrom(_, _, _, _, _)
NearestFrom(country, cents, i, min_distance, assigned_cluster) ==
    IF i >= Len(cents) THEN assigned_cluster
    ELSE LET distance == euclidean_distance(country, cents[i + 1])
         IN  IF Less(distance, min_distance)
             THEN NearestFrom(country, cents, i + 1, distance, i)
             ELSE NearestFrom(country, cents, i + 1, min_distance, assigned_cluster)

\* variant: the pass stops one record short
assign_clusters_skip_last(cs, cents) ==
    [i \in 1..Len(cs) |->
        IF i = Len(cs) THEN cs[i]
        ELSE [cs[i] EXCEPT !.cluster = Some(NearestFrom(cs[i], cents, 0, F64_MAX, 0))]]

assign_clusters(cs, cents) ==
    [i \in 1..Len(cs) |->
        [cs[i] EXCEPT !.cluster = Some(NearestFrom(cs[i], cents, 0, F64_MAX, 0))]]

\* ---- update_centroids ----
\* the vec![Country { name: String::new(), 0.0, 0.0, 0.0, cluster: None }; k] element
ZeroCentroid ==
    [name |-> "", communicable |-> 0, non_communicable |-> 0, co2 |-> 0,
     den |-> 1, cluster |-> None]

\* new_centroids[cluster] with cluster >= k: index out of bounds, the thread panics
IndexOutOfBounds(cs, kk) ==
    \E i \in 1..Len(cs) : cs[i].cluster # None /\ unwrap(cs[i].cluster) >= kk

\* the loop `for country in countries`, from position i on
RECURSIVE Accumulate(_, _, _, _)
Accumulate(cs, i, sums, counts) ==
    IF i > Len(cs) THEN [sums |-> sums, counts |-> counts]
    ELSE IF cs[i].cluster = None THEN Accumulate(cs, i + 1, sums, counts)
    ELSE LET c == unwrap(cs[i].cluster) + 1
         IN  Accumulate(cs, i + 1,
                 [sums EXCEPT ![c].communicable = @ + cs[i].communicable,
                              ![c].non_communicable = @ + cs[i].non_communicable,
                              ![c].co2 = @ + cs[i].co2],
                 [counts EXCEPT ![c] = @ + 1])

\* variant: the sums are never divided by the counts
update_centroids_nodiv(cs, kk) ==
    Accumulate(cs, 1, [j \in 1..kk |-> ZeroCentroid], [j \in 1..kk |-> 0]).sums

\* variant: truncating division of the sums
update_centroids_intdiv(cs, kk) ==
    LET acc == Accumulate(cs, 1, [j \in 1..kk |-> ZeroCentroid], [j \in 1..kk |-> 0])
    IN  [j \in 1..kk |->
            IF acc.counts[j] > 0
            THEN [acc.sums[j] EXCEPT
                    !.communicable = @ \div acc.counts[j],
                    !.non_communicable = @ \div acc.counts[j],
                    !.co2 = @ \div acc.counts[j]]
            ELSE acc.sums[j]]

update_centroids(cs, kk) ==
    LET acc == Accumulate(cs, 1, [j \in 1..kk |-> ZeroCentroid], [j \in 1..kk |-> 0])
    IN  [j \in 1..kk |->
            IF acc.counts[j] > 0
            THEN Reduced([acc.sums[j] EXCEPT !.den = acc.counts[j]])
            ELSE acc.sums[j]]

\* ---- build_graph ----
\* a non-negative threshold t as a distance sqrt(t*t)
ThresholdDistance(t) == [num |-> t * t, den |-> 1]

\* the inner loop `for other in countries`, from position j on
RECURSIVE Neighbors(_, _, _, _, _)
Neighbors(cs, country, j, t, neighbors) ==
    IF j > Len(cs) THEN neighbors
    ELSE IF country.name # cs[j].name
              /\ Less(euclidean_distance(country, cs[j]), ThresholdDistance(t))
         THEN Neighbors(cs, country, j + 1, t, Append(neighbors, cs[j].name))
         ELSE Neighbors(cs, country, j + 1, t, neighbors)

\* variant: `<=` in place of `<` at line 121
RECURSIVE NeighborsInclusive(_, _, _, _, _)
NeighborsInclusive(cs, country, j, t, neighbors) ==
    IF j > Len(cs) THEN neighbors
    ELSE IF country.name # cs[j].name
              /\ ~Less(ThresholdDistance(t), euclidean_distance(country, cs[j]))
         THEN NeighborsInclusive(cs, country, j + 1, t, Append(neighbors, cs[j].name))
         ELSE NeighborsInclusive(cs, country, j + 1, t, neighbors)

build_graph_inclusive(cs, t) ==
    [i \in 1..Len(cs) |-> <<cs[i].name, NeighborsInclusive(cs, cs[i], 1, t, <<>>)>>]

\* variant: only the records after i are looked at
build_graph_upper(cs, t) ==
    [i \in 1..Len(cs) |-> <<cs[i].name, Neighbors(cs, cs[i], i + 1, t, <<>>)>>]

build_graph(cs, t) ==
    [i \in 1..Len(cs) |-> <<cs[i].name, Neighbors(cs, cs[i], 1, t, <<>>)>>]

\* ---- history: total within-cluster squared distance ----
RatAdd(a, b) ==
    LET n == a.num * b.den + b.num * a.den
        d == a.den * b.den
        g == GCD(n, d)
    IN  [num |-> n \div g, den |-> d \div g]

RatLeq(a, b) == a.num * b.den <= b.num * a.den

RECURSIVE SquaredDistanceSum(_, _, _)
SquaredDistanceSum(cs, cents, i) ==
    IF i > Len(cs) THEN [num |-> 0, den |-> 1]
    ELSE IF cs[i].cluster = None \/ unwrap(cs[i].cluster) >= Len(cents)
         THEN SquaredDistanceSum(cs, cents, i + 1)
         ELSE RatAdd(euclidean_distance(cs[i], cents[unwrap(cs[i].cluster) + 1]),
                     SquaredDistanceSum(cs, cents, i + 1))

\* ---- the state machine ----
Inputs ==
    UNION { { [i \in 1..n |-> Country(CountryNames[i], f[i])] :
                f \in [1..n -> FeatureVectors] } : n \in 0..MaxN }

Init ==
    /\ given \in Inputs
    /\ k \in 0..MaxK
    /\ max_iterations \in 0..MaxIter
    /\ countries = given
    /\ centroids = <<>>
    /\ new_centroids = <<>>
    /\ iter = 0
    /\ wcss = <<>>
    /\ used = <<>>
    /\ threshold = 0
    /\ graph = <<>>
    /\ pc = "start"

\* kmeans line 97
Initialize ==
    /\ pc = "start"
    /\ \E chosen \in ChooseMultiple(Len(countries), k) :
          centroids' = initialize_centroids(countries, k, chosen)
    /\ pc' = "loop"
    /\ UNCHANGED <<given, k, max_iterations, countries, new_centroids, iter,
                   wcss, used, threshold, graph>>

\* kmeans line 100
Assign ==
    /\ pc = "loop"
    /\ Len(wcss) < max_iterations
    /\ countries' = assign_clusters(countries, centroids)
    /\ wcss' = Append(wcss, SquaredDistanceSum(countries', centroids, 1))
    /\ used' = Append(used, centroids)
    /\ pc' = "update"
    /\ UNCHANGED <<given, k, max_iterations, centroids, new_centroids, iter,
                   threshold, graph>>

\* kmeans line 101
Update ==
    /\ pc = "update"
    /\ ~IndexOutOfBounds(countries, k)
    /\ new_centroids' = update_centroids(countries, k)
    /\ pc' = "compare"
    /\ UNCHANGED <<given, k, max_iterations, countries, centroids, iter, wcss,
                   used, threshold, graph>>

\* kmeans line 101, update_centroids line 71 panicking
UpdatePanic ==
    /\ pc = "update"
    /\ IndexOutOfBounds(countries, k)
    /\ pc' = "panic"
    /\ UNCHANGED <<given, k, max_iterations, countries, centroids, new_centroids,
                   iter, wcss, used, threshold, graph>>

\* kmeans lines 103-105: Vec<Country> ==, the derived PartialEq over all five fields
Converged ==
    /\ pc = "compare"
    /\ centroids = new_centroids
    /\ pc' = "done"
    /\ UNCHANGED <<given, k, max_iterations, countries, centroids, new_centroids,
                   iter, wcss, used, threshold, graph>>

\* kmeans line 107
Adopt ==
    /\ pc = "compare"
    /\ centroids # new_centroids
    /\ centroids' = new_centroids
    /\ iter' = iter + 1
    /\ pc' = "loop"
    /\ UNCHANGED <<given, k, max_iterations, countries, new_centroids, wcss,
                   used, threshold, graph>>

\* kmeans lines 99, 110: the range 0..max_iterations is used up
Exhausted ==
    /\ pc = "loop"
    /\ Len(wcss) >= max_iterations
    /\ pc' = "done"
    /\ UNCHANGED <<given, k, max_iterations, countries, centroids, new_centroids,
                   iter, wcss, used, threshold, graph>>

\* build_graph on the raw records (tests) or on kmeans' result (main line 148)
BuildGraph ==
    /\ pc \in {"start", "done"}
    /\ \E t \in 0..MaxThreshold :
          /\ threshold' = t
          /\ graph' = build_graph(countries, t)
    /\ pc' = "graphed"
    /\ UNCHANGED <<given, k, max_iterations, countries, centroids, new_centroids,
                   iter, wcss, used>>

Next ==
    \/ Initialize
    \/ Assign
    \/ Update
    \/ UpdatePanic
    \/ Converged
    \/ Adopt
    \/ Exhausted
    \/ BuildGraph

Spec == Init /\ [][Next]_vars

\* ======================= properties =======================
Labelled(cs) == \A i \in 1..Len(cs) : cs[i].cluster # None

\* squared distance of two loaded records (den = 1), from the features directly
RecordDist2(a, b) ==
    (a.communicable - b.communicable) * (a.communicable - b.communicable)
    + (a.non_communicable - b.non_communicable) * (a.non_communicable - b.non_communicable)
    + (a.co2 - b.co2) * (a.co2 - b.co2)

Elems(s) == { s[m] : m \in 1..Len(s) }

\* C1: with k greater than the number of records kmeans fails before any
\* clustering work: no record's cluster label is changed.
C1_InsufficientDataLeavesLabels ==
    k > Len(given) => countries = given

\* C2: after any assignment step every record's label is in [0, k), a valid
\* index into the k centroids the update step builds.
C2_LabelRange ==
    pc = "update" =>
        \A i \in 1..Len(countries) :
            /\ countries[i].cluster # None
            /\ unwrap(countries[i].cluster) \in 0..(k - 1)

\* C3: from initialization through every iteration the centroid collection
\* holds exactly k centroids.
C3_ExactlyKCentroids ==
    pc \in {"loop", "update", "compare"} => Len(centroids) = k

\* the returned records are the given ones, labels aside
SameRecords ==
    /\ Len(countries) = Len(given)
    /\ \A i \in 1..Len(given) : [countries[i] EXCEPT !.cluster = None] = given[i]

\* C4 (as claimed): for a non-empty record set, k >= 1 and every
\* max_iterations, kmeans returns the given records, each with a label.
C4_ReturnsAllLabelled ==
    (pc = "done" /\ Len(given) >= 1 /\ k >= 1) => (SameRecords /\ Labelled(countries))

\* C4 (amended): for a non-empty record set, k >= 1 and max_iterations >= 1,
\* kmeans returns the given records, each with a label.
C4_ReturnsAllLabelledAfterOnePass ==
    (pc = "done" /\ Len(given) >= 1 /\ k >= 1 /\ max_iterations >= 1)
        => (SameRecords /\ Labelled(countries))

C4_Witness ==
    /\ pc = "done" /\ max_iterations >= 1 /\ k >= 2 /\ Len(given) >= 2
    /\ \E i, j \in 1..Len(countries) : countries[i].cluster # countries[j].cluster

\* C5: build_graph returns one entry per record in input order; the neighbor
\* list of record i holds exactly the names of the records j # i at distance
\* strictly below the threshold, each once.
C5_GraphIsThresholdNeighbourhood ==
    pc = "graphed" =>
        /\ Len(graph) = Len(countries)
        /\ \A i \in 1..Len(countries) :
              LET want == { j \in 1..Len(countries) :
                              /\ j # i
                              /\ RecordDist2(countries[i], countries[j])
                                   < threshold * threshold }
              IN  /\ graph[i][1] = countries[i].name
                  /\ Elems(graph[i][2]) = { countries[j].name : j \in want }
                  /\ Len(graph[i][2]) = Cardinality(want)
                  /\ countries[i].name \notin Elems(graph[i][2])

C5_Witness ==
    /\ pc = "graphed" /\ threshold > 0
    /\ \E i, j \in 1..Len(countries) :
          /\ i # j
          /\ RecordDist2(countries[i], countries[j]) = threshold * threshold
          /\ countries[j].name \notin Elems(graph[i][2])
    /\ \E i \in 1..Len(graph) : graph[i][2] # <<>>

\* C6: the adjacency is symmetric: B in the neighbor list of A implies A in
\* the neighbor list of B.
C6_GraphSymmetric ==
    pc = "graphed" =>
        \A a, b \in 1..Len(graph) :
            graph[b][1] \in Elems(graph[a][2]) => graph[a][1] \in Elems(graph[b][2])

C6_Witness ==
    /\ pc = "graphed"
    /\ \E a, b \in 1..Len(graph) :
          /\ graph[b][1] \in Elems(graph[a][2])
          /\ graph[a][1] \in Elems(graph[b][2])
    /\ \E c \in 1..Len(graph) : graph[c][2] = <<>>

\* C7: the total within-cluster squared distance, taken after each assignment
\* pass against the centroids of that pass, never increases from one
\* iteration to the next.
C7_MonotonicImprovement ==
    \A i \in 1..(Len(wcss) - 1) : RatLeq(wcss[i + 1], wcss[i])

\* a pass run against a centroid set holding a reset (zero) centroid, with a
\* strictly smaller total than the pass before
C7_Witness ==
    /\ pc = "update" /\ Len(wcss) >= 2
    /\ \E j \in 1..Len(centroids) : centroids[j] = ZeroCentroid
    /\ ~RatLeq(wcss[Len(wcss) - 1], wcss[Len(wcss)])

\* component-wise equality of two centroid sets in the three feature values
FeaturesEqual(a, b) ==
    /\ Len(a) = Len(b)
    /\ \A j \in 1..Len(a) :
          /\ a[j].communicable * b[j].den = b[j].communicable * a[j].den
          /\ a[j].non_communicable * b[j].den = b[j].non_communicable * a[j].den
          /\ a[j].co2 * b[j].den = b[j].co2 * a[j].den

\* C8: in every iteration, the first included, a candidate centroid set
\* component-wise equal to the current one makes kmeans stop in that
\* iteration: no further assignment pass is run, so no pass runs against
\* centroids equal in their features to those of the pass before.
C8_StopsWhenFeaturesEqual ==
    \A i \in 1..(Len(used) - 1) : ~FeaturesEqual(used[i], used[i + 1])

\* C9: each record is labelled with the lowest centroid index at minimum
\* distance; a later centroid at equal distance never overrides it.
C9_LowestIndexAtMinimum ==
    (pc = "update" /\ Len(centroids) >= 1) =>
        \A i \in 1..Len(countries) :
            /\ countries[i].cluster # None
            /\ LET l == unwrap(countries[i].cluster)
                   d(j) == euclidean_distance(countries[i], centroids[j + 1])
               IN  /\ l \in 0..(Len(centroids) - 1)
                   /\ \A j \in 0..(Len(centroids) - 1) :
                         /\ RatLeq(d(l), d(j))
                         /\ j < l => ~RatLeq(d(j), d(l))

\* a record at equal minimum distance from two centroids of different position
C9_Witness ==
    /\ pc = "update"
    /\ \E i \in 1..Len(countries) : \E j \in 1..Len(centroids) :
          LET l == unwrap(countries[i].cluster)
          IN  /\ j > l + 1
              /\ ~FeaturesEqual(<<centroids[j]>>, <<centroids[l + 1]>>)
              /\ RatLeq(euclidean_distance(countries[i], centroids[j]),
                        euclidean_distance(countries[i], centroids[l + 1]))

RECURSIVE SumOver(_, _, _)
SumOver(cs, S, field) ==
    IF S = {} THEN 0
    ELSE LET i == CHOOSE x \in S : TRUE
         IN  cs[i][field] + SumOver(cs, S \ {i}, field)

Members(c) == { i \in 1..Len(countries) : countries[i].cluster = Some(c) }

Fields == {"communicable", "non_communicable", "co2"}

\* C10: update_centroids returns, for each index in [0, k), the component-wise
\* mean of the records labelled with it, and the zero vector when there is none.
C10_MeanOrZero ==
    pc = "compare" =>
        /\ Len(new_centroids) = k
        /\ \A c \in 0..(k - 1) :
              LET nc == new_centroids[c + 1]
              IN  /\ nc.den > 0
                  /\ \A f \in Fields :
                        IF Members(c) # {}
                        THEN nc[f] * Cardinality(Members(c))
                               = nc.den * SumOver(countries, Members(c), f)
                        ELSE nc[f] = 0

\* an empty cluster whose centroid was not at zero, beside a cluster whose mean
\* is not integral
C10_Witness ==
    /\ pc = "compare"
    /\ \E c \in 0..(k - 1) :
          /\ Members(c) = {}
          /\ c + 1 <= Len(centroids)
          /\ centroids[c + 1].communicable # 0
          /\ new_centroids[c + 1] = ZeroCentroid
    /\ \E c \in 0..(k - 1) :
          /\ Cardinality(Members(c)) >= 2
          /\ new_centroids[c + 1].den > 1

====
